---- MODULE Spec2Model ----
(***************************************************************************)
(* Model of the routing service in src/app.py.                             *)
(*                                                                         *)
(* The process loads a directed multigraph G (networkx MultiDiGraph, the   *)
(* only graph class for which the startup loop G.edges(keys=True, ...)     *)
(* runs), patches edge_id / length_m into the edges that join, builds the  *)
(* risk table risk_lookup, and then serves POST /route.  Numbers are       *)
(* integers; Python dictionaries are functions, dict.get(k, d) is DictGet. *)
(* The integer edge keys 0 and 1 of the multigraph are written "0" and "1" *)
(* so that one dictionary lookup operator serves both the key dictionary   *)
(* G[u][v] and the attribute dictionary G[u][v][key].                      *)
(***************************************************************************)
EXTENDS Integers, Sequences, FiniteSets, TLC

VARIABLES G, risk_lookup, req

vars == <<G, risk_lookup, req>>

(* ------------------------------ bounds -------------------------------- *)
MaxLen == 5          \* the larger of the two joined edge lengths
RawLen == 3          \* the "length" attribute of the raw graph's edges
MaxRisk == 3         \* the risk rate of a risk-table entry

(* -------------------------- program constants ------------------------- *)
DefaultBin == 2      \* data.get("bin", 2)
DefaultAlpha == 4    \* data.get("alpha", 4)
NoneId == -1         \* Python None, the value of data.get("edge_id") on a miss
FirstKey == "0"      \* the key 0 that the aggregation passes to get_edge_data

Nodes == {1, 2, 3}
Keys == {"0", "1"}
EdgeSlots == {<<1, 2, "0">>, <<1, 2, "1">>, <<2, 3, "0">>, <<1, 3, "0">>, <<3, 1, "0">>}
Bins == {-1, DefaultBin}
Alphas == {-1, 0, DefaultAlpha}
Queries == {"q1", "q2"}

(* ------------------------- Python dictionaries ------------------------ *)
DictGet(d, k, default) == IF k \in DOMAIN d THEN d[k] ELSE default

EmptyDict == [a \in {} |-> 0]

(* ----------------------- startup: lines 45 - 60 ----------------------- *)
\* A stable edge identity for the edge attribute rows.
EdgeIdOf(s) == 10 * s[1] + 2 * s[2] + (IF s[3] = "0" THEN 0 ELSE 1)

SlotOpts == {"absent", "bare", "raw", "join1", "joinMax"}

\* nx.read_graphml: the raw multigraph, from the set E of (u, v, key) and the
\* attribute dictionary A of each edge.
MakeGraph(E, A) ==
    [nodes |-> [n \in Nodes |-> [x |-> 10 * n, y |-> 10 * n + 1]],
     adj |-> [u \in Nodes |->
                [v \in {w \in Nodes : \E k \in Keys : <<u, w, k>> \in E} |->
                   [k \in {kk \in Keys : <<u, v, kk>> \in E} |-> A[<<u, v, k>>]]]]]

RawGraph(opt) ==
    MakeGraph({s \in EdgeSlots : opt[s] # "absent"},
              [s \in EdgeSlots |-> IF opt[s] = "bare" THEN EmptyDict
                                   ELSE [length |-> RawLen]])

\* edges_gdf[["u","v","key","edge_id","length_m"]] indexed by (u, v, key).
EdgeMap(opt) ==
    [s \in {t \in EdgeSlots : opt[t] \in {"join1", "joinMax"}} |->
        [edge_id |-> EdgeIdOf(s),
         length_m |-> IF opt[s] = "join1" THEN 1 ELSE MaxLen]]

\* data["edge_id"] = ...; data["length_m"] = ...
PatchData(data, rec) ==
    [a \in (DOMAIN data) \cup {"edge_id", "length_m"} |->
        IF a = "edge_id" THEN rec.edge_id
        ELSE IF a = "length_m" THEN rec.length_m
        ELSE data[a]]

\* for u, v, k, data in G.edges(keys=True, data=True): patch the edges that join.
PatchGraph(g, lookup) ==
    [g EXCEPT !.adj =
        [u \in DOMAIN g.adj |->
           [v \in DOMAIN g.adj[u] |->
              [k \in DOMAIN g.adj[u][v] |->
                 IF <<u, v, k>> \in DOMAIN lookup
                 THEN PatchData(g.adj[u][v][k], lookup[<<u, v, k>>])
                 ELSE g.adj[u][v][k]]]]]

\* risk_surface.set_index(["edge_id","bin_of_day"])["mu_hat_month"].to_dict()
RiskTable(keys) == [key \in keys |-> MaxRisk]

RiskKeys == {<<EdgeIdOf(<<1, 2, "0">>), DefaultBin>>,
             <<EdgeIdOf(<<1, 3, "0">>), DefaultBin>>}

(* ------------------------------ requests ------------------------------ *)
NoResp == [status |-> 0, error |-> "", coords |-> <<>>, distance_m |-> 0,
           pred_risk |-> 0, alpha |-> 0, bin_of_day |-> 0]

Idle == [pc |-> "idle", src |-> 0, dst |-> 0, bin_of_day |-> 0, alpha |-> 0,
         path |-> <<>>, resp |-> NoResp]

\* except Exception as e: return jsonify({"error": str(e)}), 400
ErrorResp(e) == [NoResp EXCEPT !.status = 400, !.error = e]

InitWith(opts, riskKeySets) ==
    /\ \E opt \in opts :
          G = PatchGraph(RawGraph(opt), EdgeMap(opt))
    /\ \E keys \in riskKeySets : risk_lookup = RiskTable(keys)
    /\ req = [q \in Queries |-> Idle]

Init == InitWith([EdgeSlots -> SlotOpts], SUBSET RiskKeys)

(* --------------------- routing logic: lines 65 - 82 ------------------- *)
\* A lookup whose default for an absent key is 1 instead of 0.
RiskGetDefaultOne(edge_id, bin_of_day) ==
    IF <<edge_id, bin_of_day>> \in DOMAIN risk_lookup
    THEN risk_lookup[<<edge_id, bin_of_day>>]
    ELSE 1

\* risk_lookup.get((edge_id, bin_of_day), 0.0)
RiskGet(edge_id, bin_of_day) ==
    IF <<edge_id, bin_of_day>> \in DOMAIN risk_lookup
    THEN risk_lookup[<<edge_id, bin_of_day>>]
    ELSE 0

\* def edge_cost(u, v, data), closed over bin_of_day and alpha.
edge_cost(u, v, data, bin_of_day, alpha) ==
    LET mu == RiskGet(DictGet(data, "edge_id", NoneId), bin_of_day)
    IN  DictGet(data, "length_m", 1) + alpha * mu

\* The weight networkx computes for the step u -> v.  A callable weight is
\* called once per adjacent pair with G._adj[u][v], which in a multigraph is
\* the dictionary from edge key to attribute dictionary.
Weight(g, u, v, bin_of_day, alpha) ==
    edge_cost(u, v, g.adj[u][v], bin_of_day, alpha)

\* The simple node paths that extend p to dst.
RECURSIVE Extend(_, _, _)
Extend(g, p, dst) ==
    LET last == p[Len(p)]
    IN  IF last = dst THEN {p}
        ELSE UNION {Extend(g, Append(p, v), dst) :
                      v \in {w \in DOMAIN g.adj[last] :
                               \A i \in 1..Len(p) : p[i] # w}}

SimplePaths(g, src, dst) == Extend(g, <<src>>, dst)

RECURSIVE PathWeight(_, _, _, _)
PathWeight(g, p, bin_of_day, alpha) ==
    IF Len(p) < 2 THEN 0
    ELSE Weight(g, p[1], p[2], bin_of_day, alpha)
           + PathWeight(g, Tail(p), bin_of_day, alpha)

NegativeWeight(g, bin_of_day, alpha) ==
    \E u \in DOMAIN g.adj : \E v \in DOMAIN g.adj[u] :
        Weight(g, u, v, bin_of_day, alpha) < 0

\* A search that answers an unreachable target with an empty path.
SearchOutcomesEmptyPath(g, src, dst, bin_of_day, alpha) ==
    LET ps == SimplePaths(g, src, dst)
        ok(p) == [raised |-> "", path |-> p]
    IN  IF src = dst THEN {ok(<<src>>)}
        ELSE IF ps = {} THEN {ok(<<>>)}
        ELSE {ok(p) : p \in {pp \in ps :
                 \A o \in ps : PathWeight(g, pp, bin_of_day, alpha)
                                 <= PathWeight(g, o, bin_of_day, alpha)}}

\* A search without the source == target case: it looks for a path of at
\* least one step from src back to src.
SearchOutcomesNoShortcut(g, src, dst, bin_of_day, alpha) ==
    LET ps == UNION {Extend(g, <<src, v>>, dst) : v \in DOMAIN g.adj[src] \ {src}}
        ok(p) == [raised |-> "", path |-> p]
    IN  IF ps = {} THEN {[raised |-> "NetworkXNoPath", path |-> <<>>]}
        ELSE {ok(p) : p \in {pp \in ps :
                 \A o \in ps : PathWeight(g, pp, bin_of_day, alpha)
                                 <= PathWeight(g, o, bin_of_day, alpha)}}

\* nx.shortest_path(G, src, dst, weight=edge_cost): the possible outcomes.
\* source == target returns [source]; no path raises NetworkXNoPath; with
\* non-negative weights the result is a path of minimum total weight (which
\* one among equals is the library's choice); with a negative weight
\* Dijkstra's precondition is broken and it returns some path or raises
\* ValueError("Contradictory paths found").
SearchOutcomes(g, src, dst, bin_of_day, alpha) ==
    LET ps == SimplePaths(g, src, dst)
        ok(p) == [raised |-> "", path |-> p]
    IN  IF src = dst THEN {ok(<<src>>)}
        ELSE IF ps = {} THEN {[raised |-> "NetworkXNoPath", path |-> <<>>]}
        ELSE IF NegativeWeight(g, bin_of_day, alpha)
             THEN {ok(p) : p \in ps} \cup {[raised |-> "ValueError", path |-> <<>>]}
        ELSE {ok(p) : p \in {pp \in ps :
                 \A o \in ps : PathWeight(g, pp, bin_of_day, alpha)
                                 <= PathWeight(g, o, bin_of_day, alpha)}}

\* G.get_edge_data(u, v, key): the attribute dictionary, or None.
get_edge_data(g, u, v, key) ==
    IF v \in DOMAIN g.adj[u] /\ key \in DOMAIN g.adj[u][v]
    THEN [none |-> FALSE, data |-> g.adj[u][v][key]]
    ELSE [none |-> TRUE, data |-> EmptyDict]

\* [(G.nodes[n]["x"], G.nodes[n]["y"]) for n in path]
Coords(g, path) == [i \in 1..Len(path) |-> <<g.nodes[path[i]].x, g.nodes[path[i]].y>>]

\* The loop of lines 74 - 80 over zip(path[:-1], path[1:]); edge_data.get on
\* None raises AttributeError.
RECURSIVE Metrics(_, _, _)
Metrics(g, path, bin_of_day) ==
    IF Len(path) < 2 THEN [raised |-> "", dist |-> 0, pred_risk |-> 0]
    ELSE LET e == get_edge_data(g, path[1], path[2], FirstKey)
             rest == Metrics(g, Tail(path), bin_of_day)
         IN  IF e.none \/ rest.raised # ""
             THEN [raised |-> "AttributeError", dist |-> 0, pred_risk |-> 0]
             ELSE [raised |-> "",
                   dist |-> DictGet(e.data, "length_m", DictGet(e.data, "length", 0))
                              + rest.dist,
                   pred_risk |-> RiskGet(DictGet(e.data, "edge_id", NoneId), bin_of_day)
                              + rest.pred_risk]

(* ------------------------ /route: lines 93 - 127 ---------------------- *)
\* Lines 96 - 106: parse the body and snap both points to graph nodes.  A body
\* that float() / int() / data[...] rejects raises; ox.nearest_nodes returns
\* some node of G for any coordinates.
Parse(q) ==
    /\ req[q].pc = "idle"
    /\ \/ req' = [req EXCEPT ![q] = [Idle EXCEPT !.pc = "done",
                                               !.resp = ErrorResp("ValueError")]]
       \/ \E src \in Nodes, dst \in Nodes, b \in Bins, a \in Alphas :
             req' = [req EXCEPT ![q] = [Idle EXCEPT !.pc = "snapped", !.src = src,
                                          !.dst = dst, !.bin_of_day = b, !.alpha = a]]
    /\ UNCHANGED <<G, risk_lookup>>

\* Line 70.
Search(q) ==
    /\ req[q].pc = "snapped"
    /\ \E o \in SearchOutcomes(G, req[q].src, req[q].dst, req[q].bin_of_day, req[q].alpha) :
          req' = [req EXCEPT ![q] =
                    IF o.raised # ""
                    THEN [@ EXCEPT !.pc = "done", !.resp = ErrorResp(o.raised)]
                    ELSE [@ EXCEPT !.pc = "searched", !.path = o.path]]
    /\ UNCHANGED <<G, risk_lookup>>

\* Lines 71 - 82 and 110 - 124: the response for a found path.
Response(g, path, bin_of_day, alpha) ==
    LET m == Metrics(g, path, bin_of_day)
    IN  IF m.raised # "" THEN ErrorResp(m.raised)
        ELSE [status |-> 200, error |-> "", coords |-> Coords(g, path),
              distance_m |-> m.dist, pred_risk |-> m.pred_risk,
              alpha |-> alpha, bin_of_day |-> bin_of_day]

\* A fold that stores the length it used back into the live edge dictionary
\* that get_edge_data returned (edge_data.setdefault("length_m", ...)).
AggregateCaching(q) ==
    /\ req[q].pc = "searched"
    /\ req' = [req EXCEPT ![q] =
                 [@ EXCEPT !.pc = "done",
                           !.resp = Response(G, req[q].path, req[q].bin_of_day,
                                             req[q].alpha)]]
    /\ G' = [G EXCEPT !.adj =
               [u \in DOMAIN G.adj |->
                  [v \in DOMAIN G.adj[u] |->
                     [k \in DOMAIN G.adj[u][v] |->
                        LET d == G.adj[u][v][k]
                        IN  IF /\ k = FirstKey
                               /\ \E i \in 1..(Len(req[q].path) - 1) :
                                     req[q].path[i] = u /\ req[q].path[i + 1] = v
                            THEN [a \in (DOMAIN d) \cup {"length_m"} |->
                                    IF a = "length_m"
                                    THEN DictGet(d, "length_m", DictGet(d, "length", 0))
                                    ELSE d[a]]
                            ELSE d]]]]
    /\ UNCHANGED risk_lookup

Aggregate(q) ==
    /\ req[q].pc = "searched"
    /\ req' = [req EXCEPT ![q] =
                 [@ EXCEPT !.pc = "done",
                           !.resp = Response(G, req[q].path, req[q].bin_of_day,
                                             req[q].alpha)]]
    /\ UNCHANGED <<G, risk_lookup>>

\* The response has been sent; the worker takes the next request.
Reply(q) ==
    /\ req[q].pc = "done"
    /\ req' = [req EXCEPT ![q] = Idle]
    /\ UNCHANGED <<G, risk_lookup>>

Step(q) == Parse(q) \/ Search(q) \/ Aggregate(q) \/ Reply(q)

\* One worker.
Next == Step("q1")

Spec == Init /\ [][Next]_vars

\* Two workers sharing G and risk_lookup; a smaller family of graphs.
InitConc ==
    InitWith({[s \in EdgeSlots |-> o] : o \in SlotOpts} , {{}, RiskKeys})

NextConc == \E q \in Queries : Step(q)

SpecConc == InitConc /\ [][NextConc]_vars

(* ====================================================================== *)
(*                              Properties                                *)
(* ====================================================================== *)
Done(r) == r.pc = "done"
Ok(r) == r.pc = "done" /\ r.resp.status = 200
Hops(p) == 1..(Len(p) - 1)

\* The cost of one edge as the specification defines it, from the edge's own
\* attribute dictionary: length_m + alpha * risk, a missing risk entry or a
\* missing edge_id counting 0.
SpecRisk(attrs, b) ==
    IF "edge_id" \in DOMAIN attrs /\ <<attrs["edge_id"], b>> \in DOMAIN risk_lookup
    THEN risk_lookup[<<attrs["edge_id"], b>>]
    ELSE 0

SpecCost(attrs, b, a) == attrs["length_m"] + a * SpecRisk(attrs, b)

EdgesOf(g) == {s \in Nodes \X Nodes \X Keys :
                 s[2] \in DOMAIN g.adj[s[1]] /\ s[3] \in DOMAIN g.adj[s[1]][s[2]]}

FullyJoined(g) == \A s \in EdgesOf(g) : "length_m" \in DOMAIN g.adj[s[1]][s[2]][s[3]]

NonNegativeCosts(g, b, a) ==
    \A s \in EdgesOf(g) : SpecCost(g.adj[s[1]][s[2]][s[3]], b, a) >= 0

Min(S) == CHOOSE m \in S : \A n \in S : m <= n

\* The cheapest way to walk a node path: the cheapest parallel edge per step.
RECURSIVE BestCost(_, _, _, _)
BestCost(g, p, b, a) ==
    IF Len(p) < 2 THEN 0
    ELSE Min({SpecCost(g.adj[p[1]][p[2]][k], b, a) : k \in DOMAIN g.adj[p[1]][p[2]]})
           + BestCost(g, Tail(p), b, a)

\* The nodes reachable from the set S, by closure.
RECURSIVE ReachSet(_, _)
ReachSet(g, S) ==
    LET T == S \cup UNION {DOMAIN g.adj[u] : u \in S}
    IN  IF T = S THEN S ELSE ReachSet(g, T)

Reachable(g, src, dst) == dst \in ReachSet(g, {src})

\* C1: when every edge cost length_m + alpha * risk is non-negative, the
\* returned path costs no more than any other path from src to dst.
C1_MinimumCost ==
    \A q \in Queries :
        LET r == req[q]
        IN  (Ok(r) /\ FullyJoined(G) /\ NonNegativeCosts(G, r.bin_of_day, r.alpha))
            => \A o \in SimplePaths(G, r.src, r.dst) :
                  BestCost(G, r.path, r.bin_of_day, r.alpha)
                    <= BestCost(G, o, r.bin_of_day, r.alpha)

\* C2: on every step of the returned path that has parallel edges, the edge
\* the aggregation reads is the edge the search relaxed: the weight the search
\* used for the step is the cost of the aggregated edge.
C2_SameParallelEdge ==
    \A q \in Queries :
        LET r == req[q]
        IN  Ok(r) =>
              \A i \in Hops(r.path) :
                 LET u == r.path[i]
                     v == r.path[i + 1]
                 IN  Cardinality(DOMAIN G.adj[u][v]) > 1
                     => Weight(G, u, v, r.bin_of_day, r.alpha)
                          = edge_cost(u, v, get_edge_data(G, u, v, FirstKey).data,
                                      r.bin_of_day, r.alpha)

\* C3: a query whose dst is not reachable from src ends in the no-path error
\* and in no successful response; it never gets past the search.
C3_NoPathError ==
    \A q \in Queries :
        LET r == req[q]
        IN  (r.pc \in {"searched", "done"} /\ r.src \in Nodes
               /\ ~Reachable(G, r.src, r.dst))
            => /\ r.pc = "done"
               /\ r.resp.status = 400
               /\ r.resp.error = "NetworkXNoPath"

C3_Witness ==
    \E q \in Queries :
        /\ Done(req[q]) /\ req[q].src \in Nodes
        /\ ~Reachable(G, req[q].src, req[q].dst)
        /\ req[q].resp.error = "NetworkXNoPath"

\* C4: no successful route contains a step with an edge whose cost
\* length_m + alpha * risk is negative.
C4_NegativeCostRejected ==
    \A q \in Queries :
        LET r == req[q]
        IN  Ok(r) =>
              \A i \in Hops(r.path) :
                 \A k \in DOMAIN G.adj[r.path[i]][r.path[i + 1]] :
                    LET attrs == G.adj[r.path[i]][r.path[i + 1]][k]
                    IN  "length_m" \in DOMAIN attrs
                        => SpecCost(attrs, r.bin_of_day, r.alpha) >= 0

\* C5: with alpha = 0 the returned path is a minimum-distance path.
C5_AlphaZeroMinDistance ==
    \A q \in Queries :
        LET r == req[q]
        IN  (Ok(r) /\ FullyJoined(G) /\ r.alpha = 0)
            => \A o \in SimplePaths(G, r.src, r.dst) :
                  BestCost(G, r.path, r.bin_of_day, 0) <= BestCost(G, o, r.bin_of_day, 0)

\* C6: a query whose src and dst are the same node succeeds with the one
\* coordinate pair of that node, distance_m = 0 and pred_risk = 0.
C6_SameNode ==
    \A q \in Queries :
        LET r == req[q]
        IN  (Done(r) /\ r.src \in Nodes /\ r.src = r.dst)
            => /\ r.resp.status = 200
               /\ r.resp.coords = <<<<G.nodes[r.src].x, G.nodes[r.src].y>>>>
               /\ r.resp.distance_m = 0
               /\ r.resp.pred_risk = 0

C6_Witness ==
    \E q \in Queries, b \in Bins, a \in Alphas :
        /\ Ok(req[q]) /\ req[q].src = req[q].dst /\ req[q].src \in Nodes
        /\ req[q].bin_of_day = b /\ req[q].alpha = a /\ a # 0

\* The steps of p whose aggregated edge has a risk-table entry at bin b.
HitHops(g, p, b) ==
    {i \in Hops(p) :
        LET e == get_edge_data(g, p[i], p[i + 1], FirstKey)
        IN  ~e.none /\ "edge_id" \in DOMAIN e.data
            /\ <<e.data["edge_id"], b>> \in DOMAIN risk_lookup}

RECURSIVE SumHits(_, _, _, _)
SumHits(g, p, b, I) ==
    IF I = {} THEN 0
    ELSE LET i == CHOOSE j \in I : TRUE
         IN  risk_lookup[<<g.adj[p[i]][p[i + 1]][FirstKey]["edge_id"], b>>]
               + SumHits(g, p, b, I \ {i})

\* C7: an edge of the returned path without a risk-table entry at the query's
\* bin (among them the edges without edge_id) adds 0 to pred_risk and 0 risk
\* to the weight of its step, and the query does not fail for it: pred_risk
\* is the sum of the entries that exist, the weight of a step whose lookup
\* misses is its length alone, and a found path whose steps all have the
\* aggregated edge is answered with success.
C7_MissIsZero ==
    \A q \in Queries :
        LET r == req[q]
            hits == HitHops(G, r.path, r.bin_of_day)
        IN  /\ Ok(r) =>
                 /\ r.resp.pred_risk = SumHits(G, r.path, r.bin_of_day, hits)
                 /\ \A i \in Hops(r.path) \ hits :
                       LET d == G.adj[r.path[i]][r.path[i + 1]]
                       IN  <<DictGet(d, "edge_id", NoneId), r.bin_of_day>>
                               \notin DOMAIN risk_lookup
                           => Weight(G, r.path[i], r.path[i + 1], r.bin_of_day, r.alpha)
                                = DictGet(d, "length_m", 1)
            /\ (Done(r) /\ r.path # <<>>
                  /\ \A i \in Hops(r.path) :
                        ~get_edge_data(G, r.path[i], r.path[i + 1], FirstKey).none)
               => r.resp.status = 200

\* A successful two-step route, one step over an edge that did not join and
\* one over a joined edge without a risk entry, with a weight that counts risk.
C7_Witness ==
    \E q \in Queries :
        LET r == req[q]
        IN  /\ Ok(r) /\ Len(r.path) = 3 /\ r.alpha # 0
            /\ HitHops(G, r.path, r.bin_of_day) = {}
            /\ \E i \in Hops(r.path) :
                  "edge_id" \notin DOMAIN G.adj[r.path[i]][r.path[i + 1]][FirstKey]
            /\ \E i \in Hops(r.path) :
                  "edge_id" \in DOMAIN G.adj[r.path[i]][r.path[i + 1]][FirstKey]

\* The responses of the query (src, dst, b, a) run alone on g.
AloneResponses(g, src, dst, b, a) ==
    {IF o.raised # "" THEN ErrorResp(o.raised) ELSE Response(g, o.path, b, a) :
       o \in SearchOutcomes(g, src, dst, b, a)}

\* C8: no step of any query changes G or risk_lookup, and a query that
\* finishes while others are in flight finishes with a response it has when
\* run alone on the same inputs.
C8_Isolation ==
    [][/\ G' = G
       /\ risk_lookup' = risk_lookup
       /\ \A q \in Queries :
             (req[q].pc \in {"snapped", "searched"} /\ req'[q].pc = "done")
             => req'[q].resp \in AloneResponses(G, req[q].src, req[q].dst,
                                                req[q].bin_of_day, req[q].alpha)]_vars

\* Both workers are past the search at once, on routes that share a step, and
\* one of them has already answered.
C8_Witness ==
    /\ Ok(req["q1"]) /\ req["q2"].pc = "searched"
    /\ Len(req["q1"].path) >= 2 /\ Len(req["q2"].path) >= 2
    /\ \E i \in Hops(req["q1"].path), j \in Hops(req["q2"].path) :
          /\ req["q1"].path[i] = req["q2"].path[j]
          /\ req["q1"].path[i + 1] = req["q2"].path[j + 1]

\* C9: a query with a negative bin does not return a successful route.
C9_InvalidParameterRejected ==
    \A q \in Queries :
        (Done(req[q]) /\ req[q].bin_of_day < 0) => req[q].resp.status = 400

\* C10: the metrics of a successful route add up to the weight the search
\* minimised: distance_m + alpha * pred_risk is the sum of edge_cost over the
\* steps of the returned path.
C10_MetricsMatchSearchCost ==
    \A q \in Queries :
        LET r == req[q]
        IN  Ok(r) => r.resp.distance_m + r.alpha * r.resp.pred_risk
                       = PathWeight(G, r.path, r.bin_of_day, r.alpha)

====
